---- MODULE Spec2Model ----
(***************************************************************************)
(* torg-checker: one run of run_check.run() and the three site probes it   *)
(* calls (check_konfiskat, check_konfiskat_with_page, check_rosim).        *)
(*                                                                         *)
(* Text is a sequence of one-character strings, so that _normalize, the    *)
(* tag stripping and the substring test of _page_contains_listing are      *)
(* computed as the code computes them.  A fetched page is a record: which  *)
(* marker substrings it holds, what the token patterns capture, its length *)
(* and its text.  A Verdict's details is a record of the message template  *)
(* and the value formatted into it.  The sites, the network and the        *)
(* browser are the environment: every step that talks to them draws its    *)
(* outcome (a response, or an exception) from a small set.                 *)
(***************************************************************************)
EXTENDS Integers, Sequences, FiniteSets, TLC

VARIABLES
    vin, plate,        \* config["vin"], config["plate"] (run_check.py 26-27)
    pc,                \* position of run()
    use_browser,       \* run_check.py 37-41
    browser,           \* "none" | "open" | "closed" | "failed" (no launch succeeded)
    sources,           \* sources_with_listings
    exitCode,          \* process exit status, NoExit while running
    uncaught,          \* the exception that left run(), NoError if none
    kpc,               \* position of the seizures-site probe
    kres,              \* its result dict
    getErr,            \* exception of check_konfiskat's GET, NoError if none
    html,              \* page fetched by check_konfiskat
    token,             \* token extracted from it
    queries,           \* the Query sequence of the probe
    qi,                \* index of the next candidate
    posts,             \* search submissions of the probe in progress, in order
    attempt,           \* check_konfiskat_with_page: for attempt in range(2)
    solverCalls,       \* results of _try_solve_killbot_slider, in order
    debugSaves,        \* calls of _save_debug_html
    rpc,               \* position of check_rosim
    rres,              \* its result dict
    rsteps,            \* page flows check_rosim has started
    alert,             \* the findings handed to build_alert_message
    site,              \* order comparison: how the site answers each candidate
    ordRes,            \* order comparison: the verdicts of the two orders
    closes,            \* calls of browser.close() (run_check.py 95)
    invocations,       \* calls of check_konfiskat begun in this process
    gets,              \* GETs of the search page by the call in progress
    formRuns,          \* times the try body of konfiskat.py 251-284 was entered
    uiExcs,            \* exceptions caught by the except of konfiskat.py 285
    call,              \* a function taken alone: its arguments and environment
    ret                \* a function taken alone: what it returned and did

vars == <<vin, plate, pc, use_browser, browser, sources, exitCode, uncaught,
          kpc, kres, getErr, html, token, queries, qi, posts, attempt, solverCalls,
          debugSaves, rpc, rres, rsteps, alert, site, ordRes,
          closes, invocations, gets, formRuns, uiExcs, call, ret>>

----------------------------------------------------------------------------
(* Text *)

SpaceChars == {" ", "\t", "\n"}

UpperChar(c) ==
    CASE c = "v" -> "V"
      [] c = "p" -> "P"
      [] c = "b" -> "B"
      [] c = "x" -> "X"
      [] OTHER -> c

\* s.upper()
Upper(s) == [i \in 1..Len(s) |-> UpperChar(s[i])]

\* re.sub(r"\s+", "", s)
RemoveSpace(s) == SelectSeq(s, LAMBDA c : c \notin SpaceChars)

_normalize(s) == RemoveSpace(Upper(s))

\* index of the first ">" of s at or after i, 0 if there is none
RECURSIVE FirstGt(_, _)
FirstGt(s, i) ==
    IF i > Len(s) THEN 0
    ELSE IF s[i] = ">" THEN i
    ELSE FirstGt(s, i + 1)

\* re.sub(r"<[^>]+>", " ", s) from position i on
RECURSIVE StripTagsFrom(_, _)
StripTagsFrom(s, i) ==
    IF i > Len(s) THEN <<>>
    ELSE IF s[i] = "<" /\ FirstGt(s, i + 1) > i + 1
         THEN <<" ">> \o StripTagsFrom(s, FirstGt(s, i + 1) + 1)
         ELSE <<s[i]>> \o StripTagsFrom(s, i + 1)

StripTags(s) == StripTagsFrom(s, 1)

\* needle in hay
IsSubstring(needle, hay) ==
    \E k \in 0..(Len(hay) - Len(needle)) :
        \A j \in 1..Len(needle) : hay[k + j] = needle[j]

NonEmpty(s) == s # <<>>

----------------------------------------------------------------------------
(* Verdicts *)

KONFISKAT_AUTOS_URL == "https://konfiskat-gov.ru/%D0%B0%D0%B2%D1%82%D0%BE%D0%BC%D0%BE%D0%B1%D0%B8%D0%BB%D0%B8"
ROSIM_URL == "https://fiol.rosim.gov.ru/mk/"

Details(tmpl, arg) == [tmpl |-> tmpl, arg |-> arg]

NoDetails == Details("", <<>>)

ErrorLoadingPage(e)   == Details("Error loading page: {e}", e.msg)
TokenBlockedDetails   == Details("Could not extract CSRF token (site may be showing bot verification)", <<>>)
TokenMissingDetails   == Details("Could not extract CSRF token", <<>>)
MatchDetails(q)       == Details("Match for query '{q}' on konfiskat-gov.ru", q)
StrOf(e)              == Details("{e}", e.msg)
NoMatchDetails        == Details("No matching listings", <<>>)
NoQueryDetails        == Details("No VIN or plate to search", <<>>)
KillBotDetails        == Details("Konfiskat is protected by KillBot (captcha). Cannot check from this environment. The hourly GitHub Action may still reach the site from its network.", <<>>)
DebugSavedDetails     == Details("Form/input not found. Page saved to konfiskat_debug.html", <<>>)
DebugNotSavedDetails(e) == Details("Form/input not found. Could not save page: {e}", e.msg)

\* the details string is "": no template, or str(e) of an exception that
\* carries no message
DetailsEmpty(d) == d.tmpl = "" \/ (d.tmpl = "{e}" /\ d.arg = <<>>)

Verdict(found, url, details) == [found |-> found, url |-> url, details |-> details]

\* result = {"found": False, "url": KONFISKAT_AUTOS_URL, "details": ""}
KonfInitResult == Verdict(FALSE, KONFISKAT_AUTOS_URL, NoDetails)
RosimInitResult == Verdict(FALSE, ROSIM_URL, NoDetails)

----------------------------------------------------------------------------
(* Identifiers and pages *)

Text_V1  == <<"V", "1">>
Text_v1  == <<"v", "1">>
Text_p7  == <<"p", " ", "7">>

\* config values: trimmed, possibly empty (config.py 18-22); two of them
\* differ as strings and are equal once normalized
Idents == {<<>>, Text_V1, Text_v1, Text_p7}

\* bodies of search responses: VIN in lower case and spaced inside markup,
\* plate in upper case, VIN only inside a tag, neither
Body_vin   == <<"<", "b", ">", "v", " ", "1", "<", "/", "b", ">">>
Body_plate == <<"x", "P", "7", "<", ">">>
Body_tag   == <<"<", "V", "1", ">", "x">>
Body_none  == <<"x", "1", "V">>

ResultPage(pl, lc, text) == [pl |-> pl, lc |-> lc, text |-> text]

\* what a search can answer: both container markers or only one or none
ResultPages ==
    { ResultPage(TRUE, TRUE, Body_vin),   ResultPage(TRUE, TRUE, Body_plate),
      ResultPage(TRUE, TRUE, Body_tag),   ResultPage(TRUE, TRUE, Body_none),
      ResultPage(TRUE, FALSE, Body_vin),  ResultPage(FALSE, TRUE, Body_plate),
      ResultPage(FALSE, FALSE, Body_none) }

ResultUrls == { KONFISKAT_AUTOS_URL, "https://konfiskat-gov.ru/search?page=1" }

NoToken == ""

\* the search page as fetched by the GET: byName / byValue are what the two
\* token patterns capture (NoToken when a pattern does not match), marks the
\* challenge words in the markup, len its length
SearchPage(byName, byValue, marks, len) ==
    [byName |-> byName, byValue |-> byValue, marks |-> marks, len |-> len]

ShortPageLimit == 5000

SearchPages ==
    { SearchPage("T1", NoToken, {}, 20000),
      SearchPage(NoToken, "T2", {"KillBot"}, 4999),
      SearchPage(NoToken, NoToken, {}, 4999),
      SearchPage(NoToken, NoToken, {}, 5000),
      SearchPage(NoToken, NoToken, {"User Verification"}, 5000),
      SearchPage(NoToken, NoToken, {"KillBot"}, 20000),
      SearchPage(NoToken, NoToken, {"kill-bot.ru"}, 5000),
      SearchPage(NoToken, NoToken, {"KillBot", "kill-bot.ru"}, 4999) }

NoPage == SearchPage(NoToken, NoToken, {}, 0)

\* html.lower() of a challenge word
LowerMark(w) ==
    CASE w = "KillBot" -> "killbot"
      [] w = "User Verification" -> "user verification"
      [] OTHER -> w

\* "verification" in html.lower()
HasVerification(page) ==
    \E w \in page.marks : LowerMark(w) \in {"verification", "user verification"}

\* "killbot" in html.lower()
HasKillbot(page) == \E w \in page.marks : LowerMark(w) = "killbot"

----------------------------------------------------------------------------
(* Exceptions *)

Exc(type, msg) == [type |-> type, msg |-> msg]

NoError == Exc("", <<>>)

\* urllib.error.URLError, raised by urlopen on a transport failure
URLErrors ==
    { Exc("URLError", <<"<urlopen error timed out>">>),
      Exc("URLError", <<"<urlopen error [Errno -2] Name or service not known>">>) }

\* what urlopen / resp.read() raise that is no URLError: a read timeout,
\* a reset connection
OtherNetErrors ==
    { Exc("TimeoutError", <<"The read operation timed out">>),
      Exc("ConnectionResetError", <<"[Errno 104] Connection reset by peer">>) }

\* what a page step raises: a wait that times out, an error with no message
UiErrors ==
    { Exc("playwright.TimeoutError", <<"Timeout 15000ms exceeded.">>),
      Exc("playwright.Error", <<>>) }

IsURLError(e) == e.type = "URLError"

----------------------------------------------------------------------------
(* Shared helpers of the two seizures-site probes: konfiskat.py 24-69 *)

\* the first pattern's capture, else the second's, else None
_extract_token(page) ==
    IF page.byName # NoToken THEN page.byName ELSE page.byValue

\* a variant without the test that the normalized identifier is non-empty
PageContainsListing_NoEmptyTest(page, v, p) ==
    LET text_nospace == RemoveSpace(Upper(StripTags(page.text)))
    IN  \/ IsSubstring(_normalize(v), text_nospace)
        \/ IsSubstring(_normalize(p), text_nospace)

_page_contains_listing(page, v, p) ==
    LET norm_vin == _normalize(v)
        norm_plate == _normalize(p)
        text_nospace == RemoveSpace(Upper(StripTags(page.text)))
    IN  \/ NonEmpty(norm_vin) /\ IsSubstring(norm_vin, text_nospace)
        \/ NonEmpty(norm_plate) /\ IsSubstring(norm_plate, text_nospace)

\* a variant that takes either container marker for a result list
HasResultListings_Either(page) == page.pl \/ page.lc

\* "property-listing" in html and "listing-content" in html
_has_result_listings(page) == page.pl /\ page.lc

\* the test of lines 113 and 269
IsMatch(page, v, p) == _has_result_listings(page) /\ _page_contains_listing(page, v, p)

\* outcome of one network or page step
Ok(page, url) == [kind |-> "ok", page |-> page, url |-> url, exc |-> NoError]
Raise(e) == [kind |-> "raise", page |-> NoPage, url |-> "", exc |-> e]

----------------------------------------------------------------------------
(* check_konfiskat: konfiskat.py 72-123 *)

\* a variant that does not compare the plate with the VIN
KonfQueries_NoDistinctTest(v, p) ==
    LET q1 == IF NonEmpty(v) THEN <<v>> ELSE <<>>
    IN  IF NonEmpty(p) THEN Append(q1, p) ELSE q1

\* lines 104-108
KonfQueries(v, p) ==
    LET q1 == IF NonEmpty(v) THEN <<v>> ELSE <<>>
    IN  IF NonEmpty(p) /\ p # v THEN Append(q1, p) ELSE q1

\* a variant that keeps a token it already holds
SessionToken_Kept(held, page) ==
    IF held # NoToken THEN held ELSE _extract_token(page)

\* line 96: token is what this call's page holds, whatever the name held
SessionToken(held, page) == _extract_token(page)

\* a variant whose except clauses catch nothing
KonfCatches_Nothing(e) == FALSE

\* the exceptions the two except clauses of check_konfiskat name
KonfCatches(e) == IsURLError(e)

\* a variant that leaves the page length out of the heuristic
KonfNoTokenDetails_NoLength(page) ==
    IF HasVerification(page) \/ HasKillbot(page)
    THEN TokenBlockedDetails
    ELSE TokenMissingDetails

\* lines 97-102
KonfNoTokenDetails(page) ==
    IF HasVerification(page) \/ HasKillbot(page) \/ page.len < ShortPageLimit
    THEN TokenBlockedDetails
    ELSE TokenMissingDetails

\* response of the GET of the search page
GetOutcomes ==
    { Ok(pg, KONFISKAT_AUTOS_URL) : pg \in SearchPages }
      \cup { Raise(e) : e \in URLErrors \cup OtherNetErrors }

\* response of one search POST
PostOutcomes ==
    { Ok(pg, u) : pg \in ResultPages, u \in ResultUrls }
      \cup { Raise(e) : e \in URLErrors \cup OtherNetErrors }

\* lines 79-102: ctl says where the probe stands after the GET
KonfAfterGet(res, out) ==
    IF out.kind = "raise"
    THEN IF KonfCatches(out.exc)
         THEN [ctl |-> "return", res |-> [res EXCEPT !.details = ErrorLoadingPage(out.exc)]]
         ELSE [ctl |-> "raise", res |-> res]
    ELSE IF _extract_token(out.page) = NoToken
         THEN [ctl |-> "return", res |-> [res EXCEPT !.details = KonfNoTokenDetails(out.page)]]
         ELSE [ctl |-> "loop", res |-> res]

\* lines 114-117
KonfFound(res, q, final_url) ==
    [res EXCEPT !.found = TRUE,
                !.url = IF final_url # "" THEN final_url ELSE KONFISKAT_AUTOS_URL,
                !.details = MatchDetails(q)]

\* a variant that gives up at the first failed search
KonfPostStep_AbortOnError(res, q, out, v, p) ==
    IF out.kind = "raise"
    THEN IF KonfCatches(out.exc)
         THEN [ctl |-> "return", res |-> [res EXCEPT !.details = StrOf(out.exc)]]
         ELSE [ctl |-> "raise", res |-> res]
    ELSE IF IsMatch(out.page, v, p)
         THEN [ctl |-> "return", res |-> KonfFound(res, q, out.url)]
         ELSE [ctl |-> "continue", res |-> res]

\* lines 111-120: one pass of the loop body
KonfPostStep(res, q, out, v, p) ==
    IF out.kind = "raise"
    THEN IF KonfCatches(out.exc)
         THEN [ctl |-> "continue", res |-> [res EXCEPT !.details = StrOf(out.exc)]]
         ELSE [ctl |-> "raise", res |-> res]
    ELSE IF IsMatch(out.page, v, p)
         THEN [ctl |-> "return", res |-> KonfFound(res, q, out.url)]
         ELSE [ctl |-> "continue", res |-> res]

\* lines 122-123
KonfLoopEnd(res) == [res EXCEPT !.details = NoMatchDetails]

----------------------------------------------------------------------------
(* check_konfiskat_with_page: konfiskat.py 126-137, 214-298 *)

\* lines 220-224
PageQueries(v, p) ==
    LET q1 == IF NonEmpty(v) THEN <<v>> ELSE <<>>
    IN  IF NonEmpty(p) /\ p # v THEN Append(q1, p) ELSE q1

\* the page after the first navigation: phrases of its title, challenge
\* words in the first 8000 characters of its content.  The Cyrillic title
\* of the challenge page is written in Latin letters.
LoadedPage(title, marks) == [title |-> title, marks |-> marks]

LoadedPages ==
    { LoadedPage({"Avtomobili"}, {}),
      LoadedPage({"Avtomobili"}, {"killbot"}),
      LoadedPage({"Proverka polzovatelya"}, {}),
      LoadedPage({"User Verification"}, {}),
      LoadedPage({"Avtomobili"}, {"kill-bot.ru"}),
      LoadedPage({}, {"KillBot"}) }

\* lines 236-241
PageChallenge(pg) ==
    \/ "Proverka polzovatelya" \in pg.title
    \/ \E w \in pg.title : LowerMark(w) = "user verification"
    \/ "kill-bot.ru" \in pg.marks
    \/ "KillBot" \in pg.marks

\* lines 230-235: the navigation raises, or a page is loaded
OpenOutcomes ==
    { [kind |-> "ok", loaded |-> pg, exc |-> NoError] : pg \in LoadedPages }
      \cup { [kind |-> "raise", loaded |-> LoadedPage({}, {}), exc |-> e] : e \in UiErrors }

\* content and URL of the page after a submission, or the exception of a
\* fill / click / wait
SubmitOutcomes ==
    { Ok(pg, u) : pg \in ResultPages, u \in ResultUrls }
      \cup { Raise(e) : e \in UiErrors }

\* a step that yields nothing: it completes, or raises
StepOutcomes == { NoError } \cup UiErrors

\* the write of the diagnostic artifact: page.content() or write_text raise
SaveOutcomes ==
    StepOutcomes \cup { Exc("PermissionError", <<"[Errno 13] Permission denied">>) }

\* _save_debug_html, lines 126-137
_save_debug_html(res, saveExc) ==
    IF saveExc = NoError
    THEN [res EXCEPT !.details = DebugSavedDetails]
    ELSE [res EXCEPT !.details = DebugNotSavedDetails(saveExc)]

\* lines 270-273
PageFound(res, q, url) ==
    [res EXCEPT !.found = TRUE, !.url = url, !.details = MatchDetails(q)]

\* lines 261-281: one pass of the loop body.  reopen is the outcome of the
\* navigation back to the form, taken for a candidate that is not the last
PageSubmitStep(res, q, last, out, reopen, v, p) ==
    IF out.kind = "raise"
    THEN [ctl |-> "except", res |-> res]
    ELSE IF IsMatch(out.page, v, p)
    THEN [ctl |-> "return", res |-> PageFound(res, q, out.url)]
    ELSE IF q # last
    THEN IF reopen = NoError
         THEN [ctl |-> "continue", res |-> res]
         ELSE [ctl |-> "except", res |-> res]
    ELSE [ctl |-> "break", res |-> [res EXCEPT !.details = NoMatchDetails]]

\* a variant that goes on to the form whatever the solver reported
AfterChallenge_GoesOn(solved) == "form"

\* lines 242-247: on to the form after a solved challenge, return otherwise
AfterChallenge(solved) == IF solved THEN "form" ELSE "returned"

\* for attempt in range(2)
MaxAttempts == 2

\* line 287: the solver is tried on the first attempt only
RetryAllowed(att) == att = 0

----------------------------------------------------------------------------
(* _try_solve_killbot_slider: konfiskat.py 145-211 *)

\* steps = 12 + random.randint(0, 5)
MinDragSteps == 12
MaxExtraSteps == 5

PointerCalls == {"mouse.move", "mouse.down", "mouse.up"}

\* a variant that returns True after mouse.up() without waiting for the form
SliderSteps_NoWait(extra) ==
    <<"evaluate", "thumb.wait_for", "thumb.bounding_box", "container.bounding_box",
      "mouse.move", "mouse.down">>
      \o [i \in 1..(MinDragSteps + extra) |-> "mouse.move"]
      \o <<"mouse.up">>

\* the calls on the page, in the order of lines 158-207, for a drag of
\* 12 + extra steps
SliderSteps(extra) ==
    <<"evaluate", "thumb.wait_for", "thumb.bounding_box", "container.bounding_box",
      "mouse.move", "mouse.down">>
      \o [i \in 1..(MinDragSteps + extra) |-> "mouse.move"]
      \o <<"mouse.up", "wait_for_selector">>

\* what the page does to one call of the solver: does the script find a
\* thumb, do thumb and track have bounding boxes, what randint draws, which
\* call before the last wait raises (0: none), does the search form become
\* visible within the timeout (the last wait raises if not)
SliderScenarios ==
    [thumb : BOOLEAN, boxes : BOOLEAN, extra : 0..MaxExtraSteps,
     failAt : 0..(Len(SliderSteps(MaxExtraSteps)) - 1), form : BOOLEAN]

\* the call raises
SliderRaises(scn, steps, i) ==
    \/ scn.failAt = i
    \/ steps[i] = "wait_for_selector" /\ ~scn.form

\* lines 177-178 and 186-187: the returns before the drag
SliderGivesUp(scn, steps, i) ==
    \/ steps[i] = "evaluate" /\ ~scn.thumb
    \/ steps[i] = "container.bounding_box" /\ ~scn.boxes

\* the solver from its i-th call on; events are the pointer calls that have
\* completed.  An exception is caught by line 209 and never leaves.
RECURSIVE SliderFrom(_, _, _, _)
SliderFrom(scn, steps, i, events) ==
    IF i > Len(steps) THEN [ok |-> TRUE, events |-> events, escaped |-> FALSE]
    ELSE IF SliderRaises(scn, steps, i)
         THEN [ok |-> FALSE, events |-> events, escaped |-> FALSE]
    ELSE IF SliderGivesUp(scn, steps, i)
         THEN [ok |-> FALSE, events |-> events, escaped |-> FALSE]
    ELSE SliderFrom(scn, steps, i + 1,
                    IF steps[i] \in PointerCalls THEN Append(events, steps[i]) ELSE events)

_try_solve_killbot_slider(scn) == SliderFrom(scn, SliderSteps(scn.extra), 1, <<>>)

\* what the solver can report to its caller
SliderVerdicts == { _try_solve_killbot_slider(scn).ok : scn \in SliderScenarios }

\* one call of the solver as the probe records it: at the challenge check
\* or in the retry
SolverCall(at, solved) == [at |-> at, ok |-> solved]

----------------------------------------------------------------------------
(* check_rosim: rosim.py 11-89 *)

\* "Объекты не найдены", in Latin letters
NO_OBJECTS_MSG == "Obekty ne naideny"

RosimNoVinDetails       == Details("VIN not set", <<>>)
RosimNoObjectsDetails   == Details("No objects found for VIN on fiol.rosim.gov.ru", <<>>)
RosimFoundDetails       == Details("Found listing(s) for VIN on fiol.rosim.gov.ru", <<>>)
RosimNoPlaywrightDetails == Details("Playwright not installed (pip install playwright && playwright install chromium)", <<>>)

\* the results table: is .table__body there, and the phrases of its text
RosimBody(present, phrases) == [present |-> present, phrases |-> phrases]

RosimBodies ==
    { RosimBody(FALSE, {}),
      RosimBody(TRUE, {}),
      RosimBody(TRUE, {NO_OBJECTS_MSG}),
      RosimBody(TRUE, {"Toyota Sienna"}) }

RosimOutcomes ==
    { [kind |-> "ok", body |-> b, exc |-> NoError] : b \in RosimBodies }
      \cup { [kind |-> "raise", body |-> RosimBody(FALSE, {}), exc |-> e] : e \in UiErrors }

\* vin.strip(): config values carry no outer whitespace, inner stays
RECURSIVE Strip(_)
Strip(s) ==
    IF s = <<>> THEN s
    ELSE IF Head(s) \in SpaceChars THEN Strip(Tail(s))
    ELSE IF s[Len(s)] \in SpaceChars THEN Strip(SubSeq(s, 1, Len(s) - 1))
    ELSE s

\* a variant that takes an absent results table for "no objects"
RosimRead_AbsentNotFound(res, body) ==
    IF ~body.present \/ NO_OBJECTS_MSG \in body.phrases
    THEN [res EXCEPT !.details = RosimNoObjectsDetails]
    ELSE [res EXCEPT !.found = TRUE, !.details = RosimFoundDetails]

\* lines 38-45 of _run_rosim_on_page
RosimRead(res, body) ==
    LET body_text == IF body.present THEN body.phrases ELSE {}
    IN  IF NO_OBJECTS_MSG \in body_text
        THEN [res EXCEPT !.details = RosimNoObjectsDetails]
        ELSE [res EXCEPT !.found = TRUE, !.details = RosimFoundDetails]

\* check_rosim with a page, lines 56-69
RosimOnPage(res, v, out) ==
    IF Strip(v) = <<>>
    THEN [res EXCEPT !.details = RosimNoVinDetails]
    ELSE IF out.kind = "raise"
         THEN [res EXCEPT !.details = StrOf(out.exc)]
         ELSE RosimRead(res, out.body)

\* a variant that goes on to read a page where playwright is missing
RosimNoPage_ReadsPage(res, v) ==
    IF Strip(v) = <<>>
    THEN [res EXCEPT !.details = RosimNoVinDetails]
    ELSE RosimRead(res, RosimBody(FALSE, {}))

\* check_rosim without a page where playwright cannot be imported, lines 56-75
RosimNoPage(res, v) ==
    IF Strip(v) = <<>>
    THEN [res EXCEPT !.details = RosimNoVinDetails]
    ELSE [res EXCEPT !.details = RosimNoPlaywrightDetails]

\* check_rosim without a page where playwright can be imported, lines 56-89:
\* its own browser is launched, used for the page flow and closed
RosimOwnBrowser(res, v, launch, out) ==
    IF Strip(v) = <<>>
    THEN [res EXCEPT !.details = RosimNoVinDetails]
    ELSE IF launch # NoError
         THEN [res EXCEPT !.details = StrOf(launch)]
         ELSE IF out.kind = "raise"
              THEN [res EXCEPT !.details = StrOf(out.exc)]
              ELSE RosimRead(res, out.body)

\* how check_rosim is called: on a page, without one where playwright is
\* missing, without one where it is there
RosimModes == {"page", "no playwright", "own browser"}

\* check_rosim(vin, page): the result dict, the page flows started and the
\* browsers launched by the call
check_rosim(v, mode, launch, out) ==
    LET res == CASE mode = "page" -> RosimOnPage(RosimInitResult, v, out)
                 [] mode = "no playwright" -> RosimNoPage(RosimInitResult, v)
                 [] mode = "own browser" -> RosimOwnBrowser(RosimInitResult, v, launch, out)
        set == Strip(v) # <<>>
    IN  [res |-> res,
         launches |-> IF set /\ mode = "own browser" THEN 1 ELSE 0,
         steps |-> IF set /\ (mode = "page" \/ (mode = "own browser" /\ launch = NoError))
                   THEN 1 ELSE 0]

----------------------------------------------------------------------------
(* run(): run_check.py 24-128 *)

NoExit == -1

KONFISKAT_NAME == "Konfiskat (konfiskat-gov.ru)"
ROSIM_NAME == "Rosimushchestvo (fiol.rosim.gov.ru)"

Source(name, url) == [name |-> name, url |-> url]

\* lines 81-85, 89-93, 100-104, 107-111
WithFinding(list, name, res) ==
    IF res.found THEN Append(list, Source(name, res.url)) ELSE list

\* sys.exit(0) with no finding, sys.exit(1) otherwise: lines 113-128
ReportCode(list) == IF list = <<>> THEN 0 ELSE 1

\* exit status of the interpreter when an exception leaves run()
TracebackCode == 1

\* chromium.launch with channel="chrome", then without: lines 54-57
LaunchOutcomes == {"chrome", "chromium", "none"}

LaunchError == Exc("playwright.Error", <<"Executable doesn't exist">>)

\* the order comparison is not part of a run
\* no function is taken alone in a run of run()
NoCall == [fn |-> "none"]
NoRet == [fn |-> "none"]

NoSite == [mode |-> "none", solved |-> FALSE, out |-> <<>>]
NoOrdRes == <<>>

Init ==
    /\ vin \in Idents
    /\ plate \in Idents
    /\ pc = "start"
    /\ use_browser = FALSE
    /\ browser = "none"
    /\ sources = <<>>
    /\ exitCode = NoExit
    /\ uncaught = NoError
    /\ kpc = "idle"
    /\ kres = KonfInitResult
    /\ getErr = NoError
    /\ html = NoPage
    /\ token = NoToken
    /\ queries = <<>>
    /\ qi = 0
    /\ posts = <<>>
    /\ attempt = 0
    /\ solverCalls = <<>>
    /\ debugSaves = <<>>
    /\ rpc = "idle"
    /\ rres = RosimInitResult
    /\ rsteps = 0
    /\ alert = <<>>
    /\ site = NoSite
    /\ ordRes = NoOrdRes
    /\ closes = 0
    /\ invocations = 0
    /\ gets = 0
    /\ formRuns = 0
    /\ uiExcs = 0
    /\ call = NoCall
    /\ ret = NoRet

runVars == <<pc, use_browser, browser, sources, exitCode, uncaught, alert>>
konfVars == <<kpc, kres, getErr, html, token, queries, qi, posts, attempt, solverCalls, debugSaves>>
rosimVars == <<rpc, rres, rsteps>>
histVars == <<closes, invocations, gets, formRuns, uiExcs>>

\* an exception leaves run(): the interpreter prints it and exits
Escapes(e) ==
    /\ uncaught' = e
    /\ exitCode' = TracebackCode
    /\ pc' = "exited"

\* lines 25-30
CheckConfig ==
    /\ pc = "start"
    /\ IF vin = <<>> /\ plate = <<>>
       THEN exitCode' = 2 /\ pc' = "exited"
       ELSE exitCode' = exitCode /\ pc' = "import"
    /\ UNCHANGED <<vin, plate, site, ordRes, call, ret, use_browser, browser, sources, uncaught, alert>>
    /\ UNCHANGED <<konfVars, rosimVars>>
    /\ UNCHANGED histVars

\* lines 37-43, and the branch of lines 96-97
ImportPlaywright ==
    /\ pc = "import"
    /\ \E importable \in BOOLEAN :
        /\ use_browser' = importable
        /\ pc' = IF importable THEN "launch"
                 ELSE IF NonEmpty(vin) THEN "rosim" ELSE "konfiskat"
    /\ UNCHANGED <<vin, plate, site, ordRes, call, ret, browser, sources, exitCode, uncaught, alert>>
    /\ UNCHANGED <<konfVars, rosimVars>>
    /\ UNCHANGED histVars

\* lines 44-57
LaunchBrowser ==
    /\ pc = "launch"
    /\ \E out \in LaunchOutcomes :
        IF out = "none"
        THEN Escapes(LaunchError) /\ browser' = "failed"
        ELSE browser' = "open" /\ pc' = "setup" /\ UNCHANGED <<exitCode, uncaught>>
    /\ UNCHANGED <<vin, plate, site, ordRes, call, ret, use_browser, sources, alert>>
    /\ UNCHANGED <<konfVars, rosimVars>>
    /\ UNCHANGED histVars

\* lines 58-78, and line 95 when they raise
SetupPage ==
    /\ pc = "setup"
    /\ \E e \in StepOutcomes :
        IF e = NoError
        THEN pc' = "konfiskat" /\ UNCHANGED <<browser, closes, exitCode, uncaught>>
        ELSE browser' = "closed" /\ closes' = closes + 1 /\ Escapes(e)
    /\ UNCHANGED <<vin, plate, site, ordRes, call, ret, use_browser, sources, alert>>
    /\ UNCHANGED <<konfVars, rosimVars>>
    /\ UNCHANGED <<invocations, gets, formRuns, uiExcs>>

----------------------------------------------------------------------------
(* check_konfiskat, as the else branch of run() calls it (line 105) *)

\* an exception no except clause of the probe names leaves the probe, and
\* nothing in run() catches it
KonfRaises(e) ==
    /\ kpc' = "raised"
    /\ Escapes(e)

\* lines 79-108: the GET, the token, the Query sequence
KonfGet ==
    /\ pc = "konfiskat" /\ ~use_browser /\ kpc = "idle"
    /\ \E out \in GetOutcomes :
        LET st == KonfAfterGet(KonfInitResult, out)
            qs == KonfQueries(vin, plate)
        IN  /\ html' = out.page
            /\ getErr' = out.exc
            /\ CASE st.ctl = "raise" ->
                      /\ KonfRaises(out.exc)
                      /\ UNCHANGED <<kres, token, queries, qi>>
                 [] st.ctl = "return" ->
                      /\ kres' = st.res
                      /\ kpc' = "returned"
                      /\ UNCHANGED <<token, queries, qi, pc, exitCode, uncaught>>
                 [] st.ctl = "loop" ->
                      /\ token' = SessionToken(token, out.page)
                      /\ queries' = qs
                      /\ qi' = 1
                      /\ kres' = IF qs = <<>> THEN KonfLoopEnd(st.res) ELSE st.res
                      /\ kpc' = IF qs = <<>> THEN "returned" ELSE "loop"
                      /\ UNCHANGED <<pc, exitCode, uncaught>>
    /\ UNCHANGED <<vin, plate, site, ordRes, call, ret, use_browser, browser, sources, alert>>
    /\ UNCHANGED <<posts, attempt, solverCalls, debugSaves, rosimVars>>
    /\ invocations' = invocations + 1
    /\ gets' = gets + 1
    /\ UNCHANGED <<closes, formRuns, uiExcs>>

Post(q, tok, out) == [q |-> q, token |-> tok, out |-> out]

\* lines 110-123: one search POST, and the end of the loop after the last
KonfPost ==
    /\ pc = "konfiskat" /\ ~use_browser /\ kpc = "loop"
    /\ \E out \in PostOutcomes :
        LET q == queries[qi]
            st == KonfPostStep(kres, q, out, vin, plate)
        IN  /\ posts' = Append(posts, Post(q, token, out))
            /\ CASE st.ctl = "raise" ->
                      /\ KonfRaises(out.exc)
                      /\ UNCHANGED <<kres, qi>>
                 [] st.ctl = "return" ->
                      /\ kres' = st.res
                      /\ kpc' = "returned"
                      /\ UNCHANGED <<qi, pc, exitCode, uncaught>>
                 [] st.ctl = "continue" ->
                      /\ kres' = IF qi = Len(queries) THEN KonfLoopEnd(st.res) ELSE st.res
                      /\ kpc' = IF qi = Len(queries) THEN "returned" ELSE "loop"
                      /\ qi' = qi + 1
                      /\ UNCHANGED <<pc, exitCode, uncaught>>
    /\ UNCHANGED <<vin, plate, site, ordRes, call, ret, use_browser, browser, sources, alert>>
    /\ UNCHANGED <<getErr, html, token, queries, attempt, solverCalls, debugSaves, rosimVars>>
    /\ UNCHANGED histVars

----------------------------------------------------------------------------
(* check_konfiskat_with_page, as run() calls it on the shared page (line 79) *)

\* lines 291-293 and 296-297: the artifact is written, the probe returns
PageGiveUp ==
    \E s \in SaveOutcomes :
        /\ kres' = _save_debug_html(kres, s)
        /\ debugSaves' = Append(debugSaves, s = NoError)
        /\ kpc' = "returned"

\* lines 285-293: the except clause of an attempt
PageExcept ==
    /\ uiExcs' = uiExcs + 1
    /\ IF RetryAllowed(attempt)
       THEN kpc' = "retry" /\ UNCHANGED <<kres, debugSaves>>
       ELSE PageGiveUp

\* lines 219-241: the Query sequence, the navigation, the challenge check
PageOpen ==
    /\ pc = "konfiskat" /\ use_browser /\ kpc = "idle"
    /\ queries' = PageQueries(vin, plate)
    /\ IF PageQueries(vin, plate) = <<>>
       THEN /\ kres' = [kres EXCEPT !.details = NoQueryDetails]
            /\ kpc' = "returned"
            /\ UNCHANGED debugSaves
       ELSE \E out \in OpenOutcomes :
               IF out.kind = "raise"
               THEN PageGiveUp
               ELSE /\ kpc' = IF PageChallenge(out.loaded) THEN "solve" ELSE "form"
                    /\ UNCHANGED <<kres, debugSaves>>
    /\ UNCHANGED <<vin, plate, site, ordRes, call, ret, runVars, rosimVars>>
    /\ UNCHANGED <<getErr, html, token, qi, posts, attempt, solverCalls>>
    /\ UNCHANGED histVars

\* lines 242-247: the solver at the challenge check
PageSolve ==
    /\ pc = "konfiskat" /\ use_browser /\ kpc = "solve"
    /\ \E solved \in SliderVerdicts :
        /\ solverCalls' = Append(solverCalls, SolverCall("challenge", solved))
        /\ kpc' = AfterChallenge(solved)
        /\ kres' = IF solved THEN kres ELSE [kres EXCEPT !.details = KillBotDetails]
    /\ UNCHANGED <<vin, plate, site, ordRes, call, ret, runVars, rosimVars>>
    /\ UNCHANGED <<getErr, html, token, queries, qi, posts, attempt, debugSaves>>
    /\ UNCHANGED histVars

\* lines 252-258: the form, the reveal, the query input
PageForm ==
    /\ pc = "konfiskat" /\ use_browser /\ kpc = "form"
    /\ \E e \in StepOutcomes :
        IF e = NoError
        THEN kpc' = "submit" /\ qi' = 1 /\ UNCHANGED <<kres, debugSaves, uiExcs>>
        ELSE PageExcept /\ qi' = qi
    /\ UNCHANGED <<vin, plate, site, ordRes, call, ret, runVars, rosimVars>>
    /\ UNCHANGED <<getErr, html, token, queries, posts, attempt, solverCalls>>
    /\ formRuns' = formRuns + 1
    /\ UNCHANGED <<closes, invocations, gets>>

\* lines 260-284: one candidate, and the end of the loop after the last
PageSubmit ==
    /\ pc = "konfiskat" /\ use_browser /\ kpc = "submit"
    /\ \E out \in SubmitOutcomes :
      \E reopen \in StepOutcomes :
        LET q == queries[qi]
            st == PageSubmitStep(kres, q, queries[Len(queries)], out, reopen, vin, plate)
        IN  /\ posts' = Append(posts, Post(q, NoToken, out))
            /\ CASE st.ctl = "except" ->
                      PageExcept /\ qi' = qi
                 [] st.ctl \in {"return", "break"} ->
                      /\ kres' = st.res
                      /\ kpc' = "returned"
                      /\ UNCHANGED <<qi, debugSaves, uiExcs>>
                 [] st.ctl = "continue" ->
                      /\ kpc' = "submit"
                      /\ qi' = qi + 1
                      /\ UNCHANGED <<kres, debugSaves, uiExcs>>
    /\ UNCHANGED <<vin, plate, site, ordRes, call, ret, runVars, rosimVars>>
    /\ UNCHANGED <<getErr, html, token, queries, attempt, solverCalls>>
    /\ UNCHANGED <<closes, invocations, gets, formRuns>>

\* line 287: the solver after the first exception of the form / search step
PageRetrySolve ==
    /\ pc = "konfiskat" /\ use_browser /\ kpc = "retry"
    /\ \E solved \in SliderVerdicts :
        /\ solverCalls' = Append(solverCalls, SolverCall("retry", solved))
        /\ IF solved
           THEN /\ attempt' = attempt + 1
                /\ kpc' = IF attempt + 1 < MaxAttempts THEN "form" ELSE "returned"
                /\ UNCHANGED <<kres, debugSaves>>
           ELSE PageGiveUp /\ attempt' = attempt
    /\ UNCHANGED <<vin, plate, site, ordRes, call, ret, runVars, rosimVars>>
    /\ UNCHANGED <<getErr, html, token, queries, qi, posts>>
    /\ UNCHANGED histVars

----------------------------------------------------------------------------
(* the rest of run() *)

\* a variant where browser.close() belongs to the "if vin:" block
AfterKonfiskat_CloseWithRosim(with_page, v) ==
    IF with_page /\ NonEmpty(v) THEN "rosim" ELSE "report"

\* a variant that goes from the seizures-site probe straight to the close
AfterKonfiskat_SkipRosim(with_page, v) ==
    IF with_page THEN "close" ELSE "report"

\* where run() goes on after the seizures-site probe: line 86 and the
\* finally of lines 94-95 on the shared page, line 113 otherwise
AfterKonfiskat(with_page, v) ==
    IF with_page
    THEN IF NonEmpty(v) THEN "rosim" ELSE "close"
    ELSE "report"

\* lines 80-86 and 106-111: the verdict is logged and recorded; the probe's
\* locals are gone
KonfReturn ==
    /\ pc = "konfiskat" /\ kpc = "returned"
    /\ sources' = WithFinding(sources, KONFISKAT_NAME, kres)
    /\ kpc' = "done"
    /\ pc' = AfterKonfiskat(use_browser, vin)
    /\ getErr' = NoError /\ html' = NoPage /\ token' = NoToken
    /\ queries' = <<>> /\ qi' = 0
    /\ posts' = <<>> /\ attempt' = 0
    /\ UNCHANGED <<vin, plate, site, ordRes, call, ret, use_browser, browser, exitCode, uncaught, alert>>
    /\ UNCHANGED <<kres, solverCalls, debugSaves, rosimVars>>
    /\ UNCHANGED histVars

\* line 87: check_rosim(vin, page=page)
RosimWithPage ==
    /\ pc = "rosim" /\ use_browser /\ rpc = "idle"
    /\ \E out \in RosimOutcomes :
        rres' = RosimOnPage(RosimInitResult, vin, out)
    /\ rsteps' = IF Strip(vin) = <<>> THEN rsteps ELSE rsteps + 1
    /\ rpc' = "returned"
    /\ UNCHANGED <<vin, plate, site, ordRes, call, ret, runVars, konfVars>>
    /\ UNCHANGED histVars

\* line 98: check_rosim(vin), where the import of line 38 has failed
RosimWithoutPage ==
    /\ pc = "rosim" /\ ~use_browser /\ rpc = "idle"
    /\ rres' = RosimNoPage(RosimInitResult, vin)
    /\ rpc' = "returned"
    /\ UNCHANGED <<vin, plate, site, ordRes, call, ret, runVars, konfVars, rsteps>>
    /\ UNCHANGED histVars

\* lines 88-93 and 99-104
RosimReturn ==
    /\ pc = "rosim" /\ rpc = "returned"
    /\ sources' = WithFinding(sources, ROSIM_NAME, rres)
    /\ rpc' = "done"
    /\ pc' = IF use_browser THEN "close" ELSE "konfiskat"
    /\ UNCHANGED <<vin, plate, site, ordRes, call, ret, use_browser, browser, exitCode, uncaught, alert>>
    /\ UNCHANGED <<konfVars, rres, rsteps>>
    /\ UNCHANGED histVars

\* lines 94-95
CloseBrowser ==
    /\ pc = "close"
    /\ browser' = "closed"
    /\ pc' = "report"
    /\ UNCHANGED <<vin, plate, site, ordRes, call, ret, use_browser, sources, exitCode, uncaught, alert>>
    /\ UNCHANGED <<konfVars, rosimVars>>
    /\ closes' = closes + 1
    /\ UNCHANGED <<invocations, gets, formRuns, uiExcs>>

\* lines 113-128
Report ==
    /\ pc = "report"
    /\ exitCode' = ReportCode(sources)
    /\ alert' = sources
    /\ pc' = "exited"
    /\ UNCHANGED <<vin, plate, site, ordRes, call, ret, use_browser, browser, sources, uncaught>>
    /\ UNCHANGED <<konfVars, rosimVars>>
    /\ UNCHANGED histVars

Next ==
    \/ CheckConfig
    \/ ImportPlaywright
    \/ LaunchBrowser
    \/ SetupPage
    \/ KonfGet
    \/ KonfPost
    \/ PageOpen
    \/ PageSolve
    \/ PageForm
    \/ PageSubmit
    \/ PageRetrySolve
    \/ KonfReturn
    \/ RosimWithPage
    \/ RosimWithoutPage
    \/ RosimReturn
    \/ CloseBrowser
    \/ Report

Spec == Init /\ [][Next]_vars

----------------------------------------------------------------------------
(* Properties *)

\* the seizures-site probe in progress is the HTTP one / the browser one
InHttpProbe == pc = "konfiskat" /\ ~use_browser
InPageProbe == pc = "konfiskat" /\ use_browser

\* submission i of the probe in progress failed with a URLError
UrlErrorPost(i) == posts[i].out.kind = "raise" /\ IsURLError(posts[i].out.exc)

\* submission i was answered with both container markers and an identifier
MatchingPost(i) ==
    /\ posts[i].out.kind = "ok"
    /\ posts[i].out.page.pl
    /\ posts[i].out.page.lc
    /\ _page_contains_listing(posts[i].out.page, vin, plate)

\* C1: no exception escapes a probe call: whatever a network or page step
\* raises, the probe returns a Verdict (with found = false).
C1_NoExceptionEscapes ==
    /\ kpc # "raised"
    /\ rpc # "raised"

\* C2: a seizures-site probe returns found = true exactly when a submitted
\* candidate, taken in the order of the Query sequence, was answered with
\* both container markers and an identifier match; it returns at the first
\* such answer, submits nothing after it, and url is that answer's URL.
C2_FoundIffFirstMatch ==
    (pc = "konfiskat" /\ kpc = "returned") =>
        /\ kres.found <=> \E i \in DOMAIN posts : MatchingPost(i)
        /\ kres.found =>
              /\ MatchingPost(Len(posts))
              /\ \A i \in 1..(Len(posts) - 1) : ~MatchingPost(i)
              /\ kres.url = posts[Len(posts)].out.url
        /\ \E k \in 0..Len(posts) :
              \A i \in DOMAIN posts :
                  /\ (IF i <= k THEN i ELSE i - k) \in DOMAIN queries
                  /\ posts[i].q = queries[IF i <= k THEN i ELSE i - k]

\* C2 witness: the second candidate's answer matched, at a URL other than
\* the default one
C2_Witness ==
    /\ pc = "konfiskat" /\ kpc = "returned" /\ kres.found
    /\ Len(posts) = 2
    /\ posts[1].out.kind = "ok"
    /\ kres.url # KONFISKAT_AUTOS_URL

\* some probe has returned found = true
FoundAny ==
    \/ kpc \in {"returned", "done"} /\ kres.found
    \/ rpc \in {"returned", "done"} /\ rres.found

\* C3: the run exits with 1 exactly when a probe returned found = true and
\* with 0 when every probe returned found = false; two findings both reach
\* the notifier; with no identifier it exits with 2 before any probe or
\* browser launch.
C3_ExitCodePolicy ==
    pc = "exited" =>
        /\ (exitCode = 1) <=> FoundAny
        /\ (exitCode = 0) <=> (~FoundAny /\ ~(vin = <<>> /\ plate = <<>>))
        /\ (kres.found /\ rres.found) =>
              /\ \E i \in DOMAIN alert : alert[i].name = KONFISKAT_NAME
              /\ \E i \in DOMAIN alert : alert[i].name = ROSIM_NAME
        /\ (vin = <<>> /\ plate = <<>>) =>
              /\ exitCode = 2
              /\ kpc = "idle" /\ rpc = "idle" /\ browser = "none"

\* C4: in check_konfiskat a search that fails with a URLError does not end
\* the loop: the next candidate is searched, and a later matching answer
\* gives found = true.
C4_ErrorDoesNotAbort ==
    InHttpProbe =>
        \A i \in DOMAIN posts :
            UrlErrorPost(i) =>
                /\ i < Len(queries) =>
                      \/ Len(posts) > i
                      \/ kpc = "loop" /\ qi = i + 1
                /\ kpc = "returned" =>
                      /\ kres.found \/ Len(posts) = Len(queries)
                      /\ kres.found <=> \E j \in (i + 1)..Len(posts) : MatchingPost(j)

\* C4 witness: the first search failed, the second matched
C4_Witness ==
    /\ InHttpProbe /\ kpc = "returned" /\ kres.found
    /\ Len(posts) = 2
    /\ UrlErrorPost(1)

\* C5: in check_konfiskat, when a search failed with a URLError and the
\* probe returns found = false, details holds the text of that error.
C5_ErrorTextInDetails ==
    (InHttpProbe /\ kpc = "returned" /\ ~kres.found) =>
        \A i \in DOMAIN posts :
            UrlErrorPost(i) => kres.details.arg = posts[i].out.exc.msg

\* C6: in check_konfiskat, when the GET of the search page fails with a
\* URLError, the probe returns found = false with the error text in details;
\* no token is taken and no search is made.
C6_GetErrorReturns ==
    IsURLError(getErr) =>
        /\ kpc = "returned"
        /\ ~kres.found
        /\ kres.url = KONFISKAT_AUTOS_URL
        /\ kres.details.tmpl = "Error loading page: {e}"
        /\ kres.details.arg = getErr.msg
        /\ token = NoToken
        /\ posts = <<>>

\* C6 witness: the GET failed with a URLError
C6_Witness ==
    /\ InHttpProbe /\ IsURLError(getErr) /\ kpc = "returned"
    /\ kres.details = Details("Error loading page: {e}", <<"<urlopen error timed out>">>)

\* the words line 98 looks for, in any letter case
ChallengeWords == {"verification", "User Verification", "killbot", "KillBot"}

\* the GET was answered with a page neither token pattern matches
FetchedWithoutToken ==
    /\ InHttpProbe /\ kpc # "idle" /\ getErr = NoError
    /\ html.byName = NoToken /\ html.byValue = NoToken

\* C7: in check_konfiskat, a page without a token gives found = false and no
\* search; details speak of bot verification when the page is shorter than
\* 5000 characters or holds a challenge word, and are the plain
\* token-missing message otherwise.
C7_NoTokenDetails ==
    FetchedWithoutToken =>
        /\ kpc = "returned"
        /\ ~kres.found
        /\ posts = <<>>
        /\ IF html.len < 5000 \/ html.marks \cap ChallengeWords # {}
           THEN kres.details = TokenBlockedDetails
           ELSE kres.details = TokenMissingDetails

\* C7 witness: a short page with no challenge word and no token
C7_Witness ==
    /\ FetchedWithoutToken
    /\ html.len = 4999 /\ html.marks = {}
    /\ kres.details = TokenBlockedDetails

\* C8: a Verdict with found = true names in details the identifier that
\* matched: the VIN if the answer holds the VIN, the plate if it holds the
\* plate and not the VIN.
C8_DetailsNameMatched ==
    (pc = "konfiskat" /\ kpc = "returned" /\ kres.found) =>
        LET pg == posts[Len(posts)].out.page
            hasVin == _page_contains_listing(pg, vin, <<>>)
            hasPlate == _page_contains_listing(pg, <<>>, plate)
        IN  /\ hasVin => kres.details.arg = vin
            /\ (hasPlate /\ ~hasVin) => kres.details.arg = plate

\* the probe in progress has built its Query sequence
QueriesBuilt ==
    /\ pc = "konfiskat"
    /\ \/ kpc \in {"loop", "solve", "form", "submit", "retry"}
       \/ kpc = "returned" /\ (use_browser \/ token # NoToken)

\* C9: the Query sequence is the VIN if non-empty, then the plate if
\* non-empty and distinct from the VIN: no empty string, no duplicate, one
\* candidate for identical VIN and plate; both probes build the same one.
C9_QuerySequence ==
    /\ QueriesBuilt =>
          /\ queries = (IF vin # <<>> THEN <<vin>> ELSE <<>>)
                         \o (IF plate # <<>> /\ plate # vin THEN <<plate>> ELSE <<>>)
          /\ \A i \in DOMAIN queries : queries[i] # <<>>
          /\ \A i, j \in DOMAIN queries : queries[i] = queries[j] => i = j
          /\ (vin = plate) => Len(queries) = 1
    /\ \A v, p \in Idents : KonfQueries(v, p) = PageQueries(v, p)

\* C9 witness: identical VIN and plate, one candidate
C9_Witness == QueriesBuilt /\ vin = plate /\ Len(queries) = 1

----------------------------------------------------------------------------
(* The two probes as functions of the Query sequence and of the site's      *)
(* answer to each candidate, to compare the two orders of the candidates.   *)

\* check_konfiskat from line 110 on, the GET and the token being there
RECURSIVE KonfLoop(_, _, _, _, _, _)
KonfLoop(res, qs, i, out, v, p) ==
    IF i > Len(qs)
    THEN [ctl |-> "return", res |-> KonfLoopEnd(res)]
    ELSE LET st == KonfPostStep(res, qs[i], out[qs[i]], v, p)
         IN  IF st.ctl = "continue"
             THEN KonfLoop(st.res, qs, i + 1, out, v, p)
             ELSE st

\* lines 260-284 of one attempt, the form and every navigation being there
RECURSIVE PageLoop(_, _, _, _, _, _)
PageLoop(res, qs, i, out, v, p) ==
    LET st == PageSubmitStep(res, qs[i], qs[Len(qs)], out[qs[i]], NoError, v, p)
    IN  IF st.ctl = "continue"
        THEN PageLoop(st.res, qs, i + 1, out, v, p)
        ELSE st

\* lines 249-298: the attempts, the solver answering `solved` on the retry
\* and the artifact being written
PageAttempts(qs, out, solved, v, p) ==
    LET first == PageLoop(KonfInitResult, qs, 1, out, v, p)
        second == PageLoop(first.res, qs, 1, out, v, p)
        giveUp == [ctl |-> "return", res |-> _save_debug_html(first.res, NoError)]
    IN  IF first.ctl # "except" THEN [ctl |-> "return", res |-> first.res]
        ELSE IF RetryAllowed(0) /\ solved
        THEN IF second.ctl # "except"
             THEN [ctl |-> "return", res |-> second.res]
             ELSE giveUp
        ELSE giveUp

RECURSIVE Reverse(_)
Reverse(qs) == IF qs = <<>> THEN <<>> ELSE Append(Reverse(Tail(qs)), Head(qs))

\* how the site answers each candidate: the same answer whenever asked
Sites(qs) ==
    [mode : {"http"}, solved : {FALSE}, out : [{qs[i] : i \in DOMAIN qs} -> PostOutcomes]]
      \cup
    [mode : {"page"}, solved : SliderVerdicts, out : [{qs[i] : i \in DOMAIN qs} -> SubmitOutcomes]]

OrderInit ==
    /\ vin \in Idents
    /\ plate \in Idents
    /\ ~(vin = <<>> /\ plate = <<>>)
    /\ site \in Sites(KonfQueries(vin, plate))
    /\ ordRes = NoOrdRes
    /\ pc = "order"
    /\ use_browser = (site.mode = "page")
    /\ browser = "none"
    /\ sources = <<>>
    /\ exitCode = NoExit
    /\ uncaught = NoError
    /\ kpc = "idle"
    /\ kres = KonfInitResult
    /\ getErr = NoError
    /\ html = NoPage
    /\ token = NoToken
    /\ queries = <<>>
    /\ qi = 0
    /\ posts = <<>>
    /\ attempt = 0
    /\ solverCalls = <<>>
    /\ debugSaves = <<>>
    /\ rpc = "idle"
    /\ rres = RosimInitResult
    /\ rsteps = 0
    /\ alert = <<>>
    /\ closes = 0
    /\ invocations = 0
    /\ gets = 0
    /\ formRuns = 0
    /\ uiExcs = 0
    /\ call = NoCall
    /\ ret = NoRet

\* check_konfiskat on the candidates in the order built and in the other
OrderHttp ==
    /\ pc = "order" /\ site.mode = "http"
    /\ queries' = KonfQueries(vin, plate)
    /\ ordRes' = << KonfLoop(KonfInitResult, queries', 1, site.out, vin, plate),
                    KonfLoop(KonfInitResult, Reverse(queries'), 1, site.out, vin, plate) >>
    /\ pc' = "ordered"
    /\ UNCHANGED <<vin, plate, site, use_browser, browser, sources, exitCode, uncaught, alert>>
    /\ UNCHANGED <<kpc, kres, getErr, html, token, qi, posts, attempt, solverCalls, debugSaves>>
    /\ UNCHANGED <<rosimVars, histVars, call, ret>>

\* check_konfiskat_with_page on the candidates in the order built and in
\* the other
OrderPage ==
    /\ pc = "order" /\ site.mode = "page"
    /\ queries' = PageQueries(vin, plate)
    /\ ordRes' = << PageAttempts(queries', site.out, site.solved, vin, plate),
                    PageAttempts(Reverse(queries'), site.out, site.solved, vin, plate) >>
    /\ pc' = "ordered"
    /\ UNCHANGED <<vin, plate, site, use_browser, browser, sources, exitCode, uncaught, alert>>
    /\ UNCHANGED <<kpc, kres, getErr, html, token, qi, posts, attempt, solverCalls, debugSaves>>
    /\ UNCHANGED <<rosimVars, histVars, call, ret>>

OrderNext == OrderHttp \/ OrderPage

OrderSpec == OrderInit /\ [][OrderNext]_vars

\* C10: the found value of a seizures-site probe does not depend on the
\* order of the candidates: with the same answer of the site to each
\* candidate (a response or a failure), VIN-then-plate and plate-then-VIN
\* end the same way, with the same found.
C10_OrderIndependent ==
    pc = "ordered" =>
        /\ ordRes[1].ctl = ordRes[2].ctl
        /\ ordRes[1].res.found = ordRes[2].res.found

----------------------------------------------------------------------------
(* A function taken alone: call holds its arguments and what the           *)
(* environment will answer, ret what it returned and did.  run() is not    *)
(* running.                                                                *)

NotRunning ==
    /\ vin = <<>>
    /\ plate = <<>>
    /\ pc = "alone"
    /\ use_browser = FALSE
    /\ browser = "none"
    /\ sources = <<>>
    /\ exitCode = NoExit
    /\ uncaught = NoError
    /\ kpc = "idle"
    /\ kres = KonfInitResult
    /\ getErr = NoError
    /\ html = NoPage
    /\ token = NoToken
    /\ queries = <<>>
    /\ qi = 0
    /\ posts = <<>>
    /\ attempt = 0
    /\ solverCalls = <<>>
    /\ debugSaves = <<>>
    /\ rpc = "idle"
    /\ rres = RosimInitResult
    /\ rsteps = 0
    /\ alert = <<>>
    /\ site = NoSite
    /\ ordRes = NoOrdRes
    /\ closes = 0
    /\ invocations = 0
    /\ gets = 0
    /\ formRuns = 0
    /\ uiExcs = 0

mainVars == <<vin, plate, site, ordRes, runVars, konfVars, rosimVars, histVars>>

----------------------------------------------------------------------------
(* _page_contains_listing taken alone: konfiskat.py 56-65 *)

\* identifiers as a caller may pass them: empty, of whitespace only, padded,
\* in either case
MatchIdents ==
    { <<>>, <<" ">>, <<"\t", " ">>, Text_V1, Text_v1, Text_p7, <<" ", "V", "1", "\n">> }

\* page texts: those of the search responses, the empty page, a page of
\* whitespace, an identifier cut in two by a tag
Body_empty == <<>>
Body_space == <<" ", "\n">>
Body_split == <<"v", "<", "i", ">", "1">>

MatchTexts ==
    { Body_vin, Body_plate, Body_tag, Body_none, Body_empty, Body_space, Body_split }

MatchInit ==
    /\ NotRunning
    /\ call \in [fn : {"_page_contains_listing"}, html : MatchTexts,
                 vin : MatchIdents, plate : MatchIdents]
    /\ ret = NoRet

MatchCall ==
    /\ call.fn = "_page_contains_listing" /\ ret = NoRet
    /\ ret' = [fn |-> call.fn,
               result |-> _page_contains_listing(ResultPage(FALSE, FALSE, call.html),
                                                 call.vin, call.plate)]
    /\ UNCHANGED <<mainVars, call>>

MatchNext == MatchCall

MatchSpec == MatchInit /\ [][MatchNext]_vars

\* s has a character that is not whitespace
HasLetter(s) == \E i \in 1..Len(s) : s[i] \notin SpaceChars

\* the characters of id from i on, whitespace skipped and case ignored, are
\* the next characters of t from k on that are not whitespace
RECURSIVE ReadsAt(_, _, _, _)
ReadsAt(id, i, t, k) ==
    IF i > Len(id) THEN TRUE
    ELSE IF id[i] \in SpaceChars THEN ReadsAt(id, i + 1, t, k)
    ELSE IF k > Len(t) THEN FALSE
    ELSE IF t[k] \in SpaceChars THEN ReadsAt(id, i, t, k + 1)
    ELSE UpperChar(t[k]) = UpperChar(id[i]) /\ ReadsAt(id, i + 1, t, k + 1)

\* id has a letter and can be read somewhere in t
Occurs(id, t) == HasLetter(id) /\ \E k \in 1..Len(t) : ReadsAt(id, 1, t, k)

\* C11: _page_contains_listing returns true exactly when the VIN, or the
\* plate, has a character left once normalized and can be read in the page
\* text once tags are taken out, case and whitespace ignored; an identifier
\* that is empty or only whitespace never matches, so two such identifiers
\* give false on every page.
C11_MatcherContract ==
    ret # NoRet =>
        /\ ret.result <=> \/ Occurs(call.vin, StripTags(call.html))
                          \/ Occurs(call.plate, StripTags(call.html))
        /\ ~HasLetter(call.vin) /\ ~HasLetter(call.plate) => ~ret.result

\* a match by the plate next to a VIN of whitespace only
C11_Witness ==
    /\ ret # NoRet
    /\ call.vin = <<" ">>
    /\ call.plate = Text_p7
    /\ call.html = Body_plate
    /\ ret.result

----------------------------------------------------------------------------
(* check_rosim taken alone: rosim.py 48-89 *)

RosimVins == MatchIdents

\* the calls: a launch failure only where check_rosim launches a browser, an
\* answer of the site only where a page flow can start
RosimCalls ==
    { c \in [fn : {"check_rosim"}, vin : RosimVins, mode : RosimModes,
             launch : {NoError, LaunchError}, out : RosimOutcomes] :
        /\ c.launch # NoError => c.mode = "own browser" /\ c.out.kind = "raise"
        /\ c.mode = "no playwright" => c.out.kind = "raise" }

RosimInit ==
    /\ NotRunning
    /\ call \in RosimCalls
    /\ ret = NoRet

RosimCall ==
    /\ call.fn = "check_rosim" /\ ret = NoRet
    /\ ret' = [fn |-> call.fn] @@ check_rosim(call.vin, call.mode, call.launch, call.out)
    /\ UNCHANGED <<mainVars, call>>

RosimNext == RosimCall

RosimSpec == RosimInit /\ [][RosimNext]_vars

\* the page flow of the call ran to its end without an exception
RosimFlowCompleted ==
    /\ call.mode # "no playwright"
    /\ call.launch = NoError
    /\ call.out.kind = "ok"

\* the results-table body is there and its text holds the marker
RosimMarkerInBody ==
    /\ call.out.body.present
    /\ NO_OBJECTS_MSG \in call.out.body.phrases

\* C12: check_rosim with an empty or whitespace-only VIN returns found = false
\* with details "VIN not set" and touches no page (and launches no browser);
\* with any other VIN, when the page flow completes without an exception,
\* found is false exactly when the text of the results-table body holds the
\* "no objects found" marker, and true otherwise, an absent body included.
C12_RosimContract ==
    ret # NoRet =>
        /\ ~HasLetter(call.vin) =>
              /\ ~ret.res.found
              /\ ret.res.details = Details("VIN not set", <<>>)
              /\ ret.steps = 0
              /\ ret.launches = 0
        /\ HasLetter(call.vin) /\ RosimFlowCompleted =>
              /\ ret.steps = 1
              /\ ret.res.found <=> ~RosimMarkerInBody

\* the flow completed on a page without a results-table body
C12_Witness ==
    /\ ret # NoRet
    /\ HasLetter(call.vin)
    /\ RosimFlowCompleted
    /\ ~call.out.body.present
    /\ ret.res.found

----------------------------------------------------------------------------
(* Properties of run() in its two modes *)

\* run() went past the import of playwright, which failed
NoBrowserMode == ~use_browser /\ pc \notin {"start", "import"} /\ exitCode # 2

\* C13: where playwright cannot be imported, only check_konfiskat does site
\* work: no browser is launched, check_rosim starts no page flow and never
\* adds a finding, and the run does not end without the GET of the seizures
\* site's search page.
C13_NoBrowserOnlyHttp ==
    NoBrowserMode =>
        /\ browser = "none"
        /\ closes = 0
        /\ rsteps = 0
        /\ ~rres.found
        /\ \A i \in 1..Len(sources) : sources[i].name # ROSIM_NAME
        /\ formRuns = 0 /\ solverCalls = <<>>
        /\ pc \in {"report", "exited"} => invocations = 1 /\ gets = 1

\* a run without playwright and with a VIN that ends with the seizures
\* site's finding alone
C13_Witness ==
    /\ NoBrowserMode
    /\ pc = "exited"
    /\ NonEmpty(vin)
    /\ rpc = "done"
    /\ rres.details = RosimNoPlaywrightDetails
    /\ kpc = "done"
    /\ kres.found
    /\ Len(alert) = 1

\* C14: when launching the browser fails, the run does not abort: no
\* exception leaves run(), and the run does not end without the seizures
\* site having been probed over HTTP.
C14_LaunchFailureFallsBack ==
    browser = "failed" =>
        /\ uncaught = NoError
        /\ pc = "exited" => gets = 1 /\ kpc = "done"

\* a browser was launched
Launched == browser \in {"open", "closed"}

\* what the probes have done on the page so far
PageUse == <<kpc, posts, solverCalls, debugSaves, formRuns, uiExcs, rpc, rsteps>>

\* C15: once the browser is launched it is closed exactly once on every way
\* out of the probing block (the probes returned, or the context / page
\* set-up raised): never twice, not before the probes are over, and the run
\* does not go on to the report or end with it open; after the close no
\* probe takes a step.
C15_ClosedOnce ==
    /\ [](closes <= 1)
    /\ [](closes = 1 <=> browser = "closed")
    /\ [](Launched /\ pc \in {"konfiskat", "rosim"} => browser = "open")
    /\ [](Launched /\ pc \in {"report", "exited"} => browser = "closed")
    /\ [][browser = "closed" => UNCHANGED PageUse]_vars

\* both probes returned on the shared page and the browser was closed
C15_Witness ==
    /\ pc = "exited"
    /\ kpc = "done" /\ rpc = "done"
    /\ rsteps = 1
    /\ browser = "closed" /\ closes = 1

\* check_rosim was called on the shared page
RosimAttempted == rpc # "idle"

\* the probing block of browser mode was left with both probes' time over
PageProbesOver == use_browser /\ kpc = "done" /\ pc \in {"close", "report", "exited"}

\* C16, as stated: in browser mode the seizures-site probe has returned
\* before check_rosim is called or takes a page step, and check_rosim is
\* attempted whatever Verdict the seizures-site probe returned.
C16_BothSitesAttempted ==
    /\ use_browser /\ (RosimAttempted \/ rsteps > 0) => kpc = "done"
    /\ PageProbesOver => RosimAttempted

\* C16, amended: the same, for a run with a VIN; check_rosim is then called
\* and starts its page flow whatever Verdict the seizures-site probe
\* returned.  Without a VIN run() does not call check_rosim.
C16_BothSitesAttemptedWithVin ==
    /\ use_browser /\ (RosimAttempted \/ rsteps > 0) => kpc = "done"
    /\ PageProbesOver /\ NonEmpty(vin) => rpc = "done" /\ rsteps = 1
    /\ PageProbesOver /\ ~NonEmpty(vin) => ~RosimAttempted /\ rsteps = 0

\* check_rosim ran its page flow after the seizures-site probe had failed on
\* the page and written the artifact
C16_Witness ==
    /\ PageProbesOver
    /\ NonEmpty(vin)
    /\ ~kres.found
    /\ debugSaves # <<>>
    /\ rpc = "done" /\ rsteps = 1
    /\ rres.found

----------------------------------------------------------------------------
(* Properties of check_konfiskat_with_page and its solver *)

\* the probe on the page has returned (its Verdict and its history stay)
PageProbeReturned == use_browser /\ kpc \in {"returned", "done"}

\* calls of the solver made by the except clause of line 285
RetryCalls == { i \in DOMAIN solverCalls : solverCalls[i].at = "retry" }

\* calls of _save_debug_html that wrote the artifact
ArtifactWrites == { i \in DOMAIN debugSaves : debugSaves[i] }

\* C17: in check_konfiskat_with_page the form / search step runs at most
\* twice and the artifact is written at most once; a first exception in the
\* step is followed by exactly one solver retry and by the step run once
\* more; the artifact is written only on the second exception of the step,
\* and the probe then returns found = false with details naming the artifact.
C17_StagedRetry ==
    use_browser =>
        /\ formRuns <= 2
        /\ Cardinality(ArtifactWrites) <= 1
        /\ PageProbeReturned =>
              /\ uiExcs >= 1 => Cardinality(RetryCalls) = 1 /\ formRuns = 2
              /\ formRuns >= 1 /\ ArtifactWrites # {} => uiExcs = 2
              /\ ArtifactWrites # {} => ~kres.found /\ kres.details = DebugSavedDetails

\* calls of the solver made by the challenge check of line 242
ChallengeCalls == { i \in DOMAIN solverCalls : solverCalls[i].at = "challenge" }

\* the solver was called at the challenge check and failed
ChallengeSolveFailed ==
    solverCalls # <<>> /\ solverCalls[1] = SolverCall("challenge", FALSE)

\* C18: in check_konfiskat_with_page a failed solver call at the challenge
\* check ends the probe: it returns found = false with the KillBot details,
\* the form step is never entered, no candidate is submitted, no artifact is
\* written and the solver is not called again; over one probe the solver is
\* called at most twice, at most once at the challenge check, which comes
\* first, and at most once after an exception of the form / search step.
C18_SolverFailureTerminal ==
    use_browser =>
        /\ Len(solverCalls) <= 2
        /\ Cardinality(RetryCalls) <= 1
        /\ ChallengeCalls \subseteq {1}
        /\ RetryCalls # {} => uiExcs >= 1
        /\ ChallengeSolveFailed =>
              /\ PageProbeReturned
              /\ ~kres.found
              /\ kres.details = KillBotDetails
              /\ formRuns = 0 /\ uiExcs = 0
              /\ posts = <<>>
              /\ debugSaves = <<>>
              /\ Len(solverCalls) = 1

\* the probe has just returned after a failed solver call at the challenge
\* check
C18_Witness ==
    /\ pc = "konfiskat" /\ kpc = "returned"
    /\ ChallengeSolveFailed
    /\ kres.details = KillBotDetails

----------------------------------------------------------------------------
(* _try_solve_killbot_slider taken alone: konfiskat.py 145-211 *)

SliderInit ==
    /\ NotRunning
    /\ call \in [fn : {"_try_solve_killbot_slider"}, scn : SliderScenarios]
    /\ ret = NoRet

SliderCall ==
    /\ call.fn = "_try_solve_killbot_slider" /\ ret = NoRet
    /\ ret' = [fn |-> call.fn] @@ _try_solve_killbot_slider(call.scn)
    /\ UNCHANGED <<mainVars, call>>

SliderNext == SliderCall

SliderSpec == SliderInit /\ [][SliderNext]_vars

\* positions of a pointer call among the pointer events of the call
EventsOf(kind) == { i \in DOMAIN ret.events : ret.events[i] = kind }

\* one of the page calls the scenario's drag is made of raises
SliderStepRaised ==
    \/ call.scn.failAt \in 1..(6 + 12 + call.scn.extra + 2)
    \/ ~call.scn.form

\* C19: _try_solve_killbot_slider lets no exception out; without a thumb it
\* returns False and no pointer event was emitted; it returns True only
\* after exactly one pointer-down, then 12 to 17 pointer-moves, then one
\* pointer-up as the last pointer event, and the search form seen visible
\* within the timeout; if any of its page calls raises it returns False.
C19_SliderProtocol ==
    ret # NoRet =>
        /\ ~ret.escaped
        /\ ~call.scn.thumb => ~ret.ok /\ ret.events = <<>>
        /\ SliderStepRaised => ~ret.ok
        /\ ret.ok =>
              /\ call.scn.thumb /\ call.scn.form
              /\ Cardinality(EventsOf("mouse.down")) = 1
              /\ Cardinality(EventsOf("mouse.up")) = 1
              /\ \E d \in EventsOf("mouse.down") :
                    /\ EventsOf("mouse.up") = {Len(ret.events)}
                    /\ Len(ret.events) - d - 1 \in 12..17
                    /\ \A i \in (d + 1)..(Len(ret.events) - 1) : ret.events[i] = "mouse.move"

\* a solved slider with the longest drag
C19_Witness ==
    /\ ret # NoRet
    /\ ret.ok
    /\ call.scn.extra = 5
    /\ Cardinality(EventsOf("mouse.move")) = 18

----------------------------------------------------------------------------
(* check_konfiskat called more than once in one process *)

MaxInvocations == 2

RepeatInit ==
    /\ vin \in Idents
    /\ plate \in Idents
    /\ ~(vin = <<>> /\ plate = <<>>)
    /\ pc = "konfiskat"
    /\ use_browser = FALSE
    /\ browser = "none"
    /\ sources = <<>>
    /\ exitCode = NoExit
    /\ uncaught = NoError
    /\ kpc = "idle"
    /\ kres = KonfInitResult
    /\ getErr = NoError
    /\ html = NoPage
    /\ token = NoToken
    /\ queries = <<>>
    /\ qi = 0
    /\ posts = <<>>
    /\ attempt = 0
    /\ solverCalls = <<>>
    /\ debugSaves = <<>>
    /\ rpc = "idle"
    /\ rres = RosimInitResult
    /\ rsteps = 0
    /\ alert = <<>>
    /\ site = NoSite
    /\ ordRes = NoOrdRes
    /\ closes = 0
    /\ invocations = 0
    /\ gets = 0
    /\ formRuns = 0
    /\ uiExcs = 0
    /\ call = NoCall
    /\ ret = NoRet

\* the call has returned and check_konfiskat is called again: the finished
\* call's locals are gone (lines 79-108 assign each before it is read; the
\* model leaves the old token in place to show that it is never read), and
\* ret keeps the token the finished call submitted
KonfAgain ==
    /\ pc = "konfiskat" /\ ~use_browser /\ kpc = "returned"
    /\ invocations < MaxInvocations
    /\ ret' = [fn |-> "check_konfiskat", token |-> IF posts = <<>> THEN NoToken ELSE token]
    /\ kpc' = "idle"
    /\ kres' = KonfInitResult
    /\ getErr' = NoError /\ html' = NoPage
    /\ queries' = <<>> /\ qi' = 0
    /\ posts' = <<>>
    /\ gets' = 0
    /\ UNCHANGED <<vin, plate, site, ordRes, call, runVars, rosimVars>>
    /\ UNCHANGED <<token, attempt, solverCalls, debugSaves>>
    /\ UNCHANGED <<closes, invocations, formRuns, uiExcs>>

RepeatNext == KonfGet \/ KonfPost \/ KonfAgain

RepeatSpec == RepeatInit /\ [][RepeatNext]_vars

\* C20: in each call of check_konfiskat there is no POST before the GET of
\* the search page, exactly one GET once the call is past it, and every POST
\* of the call carries the token extracted from the page that GET fetched,
\* whatever token an earlier call worked with.
C20_TokenPerInvocation ==
    InHttpProbe =>
        /\ kpc = "idle" => gets = 0 /\ posts = <<>>
        /\ kpc \in {"loop", "returned"} => gets = 1
        /\ \A i \in DOMAIN posts :
              /\ gets = 1
              /\ posts[i].token # NoToken
              /\ posts[i].token = _extract_token(html)

\* a second call that submits a candidate with another token than the first
C20_Witness ==
    /\ InHttpProbe
    /\ invocations = 2
    /\ ret # NoRet /\ ret.token # NoToken
    /\ posts # <<>>
    /\ posts[1].token # ret.token

----------------------------------------------------------------------------
(* Properties of the Verdicts *)

\* a returned found = false Verdict of the seizures-site probes says why and
\* has the default URL
KonfNotFoundExplained ==
    kpc = "returned" /\ ~kres.found =>
        /\ ~DetailsEmpty(kres.details)
        /\ kres.url = KONFISKAT_AUTOS_URL

\* the same for check_rosim
RosimNotFoundExplained ==
    rpc = "returned" /\ ~rres.found =>
        /\ ~DetailsEmpty(rres.details)
        /\ rres.url = ROSIM_URL

\* C21: every Verdict a probe returns with found = false has a details
\* string that is not empty, on every path (no token, no match, challenge,
\* request error, UI failure, exception with an empty message), and its url
\* is the site's default URL.
C21_NotFoundHasDetails ==
    /\ KonfNotFoundExplained
    /\ RosimNotFoundExplained

====
